---- MODULE Spec2Model ----
(***************************************************************************)
(* Agent orchestration pipeline of the SR&ED report drafter (src/agents.py,*)
(* src/llm_client.py): RetrievalAgent.retrieve with its tech_code fallback,*)
(* SimpleGeneratorAgent.generate_section / refine_section, and the         *)
(* generate -> review -> refine loop of ReportGenerator.generate_report.   *)
(*                                                                         *)
(* The vector store and the text-generation service are the environment:   *)
(* every call to them returns a nondeterministically chosen response or    *)
(* raises.  One action is the code that runs up to and including one such  *)
(* call.  The module has four entry points, chosen by Init: a call of      *)
(* generate_report, and direct calls of generate_section, refine_section   *)
(* and retrieve with arbitrary arguments.                                  *)
(***************************************************************************)
EXTENDS Integers, Sequences, FiniteSets, TLC

VARIABLES
    entry,                \* which method was called: "report", "section", "refine", "retrieve"
    pc,                   \* position of the running call
    industry,             \* project facts / call arguments
    tech_code,
    project_description,
    company_summary,
    remaining,            \* generate_report: section keys the for loop has not started yet
    key,                  \* the section being processed (loop variable / section argument)
    query,                \* retrieve: the query text, a sequence of <<label, value>> lines
    n_results,            \* retrieve: the n_results argument
    queries,              \* store queries issued by the current retrieve call, in order
    results,              \* retrieve: hits of the strict query, as returned
    relaxed,              \* retrieve: hits of the relaxed query, as returned
    found_docs,           \* retrieve: found_docs
    found_metas,          \* retrieve: found_metas
    examples,             \* value returned by retrieve
    llm_call,             \* the most recent LLMClient call of the current section
    draft,                \* generate_report: draft (refine_section: its draft argument)
    feedback,             \* generate_report: feedback (refine_section: its feedback argument)
    final_version,        \* generate_report: final_version, the text refine_section returned
    sections,             \* generate_report: the sections dict
    returned,             \* value returned by the entry call, NotReturned before that
    calls,                \* per section key, the number of completions asked of each kind
    failed_call           \* the kind of the external call that raised, "none" if none did

vars == <<entry, pc, industry, tech_code, project_description, company_summary,
          remaining, key, query, n_results, queries, results, relaxed,
          found_docs, found_metas, examples, llm_call, draft, feedback,
          final_version, sections, returned, calls, failed_call>>

---------------------------------------------------------------------------
(* Python values *)

\* None, for the Optional[str] arguments (a value no Python string equals)
None == "<None>"

\* Truth value of an Optional[str]: None and "" are falsy
Truthy(v) == v # None /\ v # ""

\* str(v) as an f-string interpolates it
Str(v) == IF v = None THEN "None" ELSE v

\* v or default
OrElse(v, default) == IF Truthy(v) THEN v ELSE default

Min2(a, b) == IF a <= b THEN a ELSE b
Max2(a, b) == IF a >= b THEN a ELSE b

\* s[:n] of a list
SliceTo(s, n) ==
    LET stop == IF n >= 0 THEN Min2(n, Len(s)) ELSE Max2(0, Len(s) + n)
    IN  SubSeq(s, 1, stop)

\* Texts exchanged with the text-generation service are sequences of characters
Whitespace == {" ", "\n", "\t"}

\* str.strip()
Strip(s) ==
    LET keep == {i \in 1..Len(s) : s[i] \notin Whitespace}
    IN  IF keep = {} THEN <<>>
        ELSE SubSeq(s, CHOOSE i \in keep : \A j \in keep : i <= j,
                       CHOOSE i \in keep : \A j \in keep : i >= j)

\* sub in s
Contains(s, sub) ==
    \E i \in 0..(Len(s) - Len(sub)) : SubSeq(s, i + 1, i + Len(sub)) = sub

\* response.choices[0].message.content when the service sends no content
NoContent == <<"<None>">>

---------------------------------------------------------------------------
(* Static configuration *)

\* the list with its first two keys exchanged
SECTION_KEYS_Swapped ==
    <<"systematic_investigation", "uncertainty", "technological_advancement">>

\* line 177: the keys the for loop goes through
SECTION_KEYS == <<"uncertainty", "systematic_investigation", "technological_advancement">>

\* the lookup as SECTION_LABELS.get(section), None for a key not configured
SectionLabel_NoDefault(section) ==
    CASE section = "uncertainty" -> "Technological Uncertainty"
      [] section = "systematic_investigation" -> "Systematic Investigation"
      [] section = "technological_advancement" -> "Technological Advancement"
      [] OTHER -> None

\* SECTION_LABELS.get(section, section)
SectionLabel(section) ==
    CASE section = "uncertainty" -> "Technological Uncertainty"
      [] section = "systematic_investigation" -> "Systematic Investigation"
      [] section = "technological_advancement" -> "Technological Advancement"
      [] OTHER -> section

\* WORD_LIMITS.get(section, (300, 350))
WordLimits(section) ==
    CASE section = "uncertainty" -> <<300, 350>>
      [] section = "systematic_investigation" -> <<650, 700>>
      [] section = "technological_advancement" -> <<300, 350>>
      [] OTHER -> <<300, 350>>

\* n_results=3 in generate_section's retrieve call
N_RESULTS == 3

\* the literal the orchestrator looks for in the feedback
APPROVED == <<"A", "P", "P", "R", "O", "V", "E", "D">>

---------------------------------------------------------------------------
(* Bounds and the environment's responses *)

\* largest n_results of a direct retrieve call
MaxN == 3

\* a section key outside the three configured ones
UnknownKey == "budget"

AllKeys == {SECTION_KEYS[i] : i \in 1..Len(SECTION_KEYS)} \cup {UnknownKey}

\* A metadata dict is a set of <<key, value>> pairs; the store may also give None
EmptyMeta == {}
NoneMeta == {<<None, None>>}

\* The (document, metadata) pairs the collection can give back: one text stored
\* twice under different metadata, one record without a project_title, one
\* without metadata
Hits == { [text |-> "e1", meta |-> {<<"project_title", "Alpha">>, <<"tech_code", "01.01">>}],
          [text |-> "e1", meta |-> {<<"project_title", "Beta">>, <<"tech_code", "02.02">>}],
          [text |-> "e2", meta |-> {<<"report_id", "r2">>}],
          [text |-> "e3", meta |-> NoneMeta] }

\* collection.query(..., n_results=n): at most n hits, most similar first
StoreResponses(n) == UNION {[1..k -> Hits] : k \in 0..Max2(n, 0)}

Docs(hits) == [i \in 1..Len(hits) |-> hits[i].text]
Metas(hits) == [i \in 1..Len(hits) |-> hits[i].meta]

\* message.content of a drafting, reviewing and refining completion
DraftContents == {NoContent, <<" ", "D", "\n">>}
ReviewContents == { NoContent,
                    APPROVED,
                    <<"N", "O", "T", " ">> \o APPROVED \o <<".", "\n">>,
                    <<"a", "p", "p", "r", "o", "v", "e", "d">>,
                    <<"A", "P", "P", "R", "O", "V", "E">>,
                    <<"-", " ", "f", "i", "x">> }
RefineContents == {<<"D">>, <<"R", " ">>}

NoCall == [kind |-> "none", args |-> <<>>]
NotReturned == <<"<not returned>">>
CallKinds == {"draft", "review", "refine"}
NoCalls == [k \in AllKeys |-> [c \in CallKinds |-> 0]]

\* one more completion of this kind for the section (store queries are in queries)
Count(section, kind) ==
    IF kind \in CallKinds THEN [calls EXCEPT ![section][kind] = @ + 1] ELSE calls

---------------------------------------------------------------------------
(* RetrievalAgent.retrieve *)

\* _execute_query: the where argument built from the conditions
WhereClause(conditions) ==
    IF Len(conditions) = 1
    THEN [op |-> "one", conds |-> <<conditions[1]>>]
    ELSE [op |-> "$and", conds |-> conditions]

\* the collection.query call of _execute_query
StoreQuery(conditions) ==
    [query_embeddings |-> query, n_results |-> n_results, where |-> WhereClause(conditions)]

\* the industry condition appended whether or not an industry was given
StrictConditions_AlwaysIndustry(section, ind, tech) ==
    <<<<"status", "approved">>, <<"section", section>>, <<"industry", ind>>>>
        \o (IF Truthy(tech) THEN <<<<"tech_code", tech>>>> ELSE <<>>)

\* lines 76-78: strict_conditions
StrictConditions(section, ind, tech) ==
    <<<<"status", "approved">>, <<"section", section>>>>
        \o (IF Truthy(ind) THEN <<<<"industry", ind>>>> ELSE <<>>)
        \o (IF Truthy(tech) THEN <<<<"tech_code", tech>>>> ELSE <<>>)

\* the relaxation dropping the industry condition as well
RelaxedConditions_NoIndustry(section, ind) ==
    <<<<"status", "approved">>, <<"section", section>>>>

\* lines 87-88: relaxed_conditions
RelaxedConditions(section, ind) ==
    <<<<"status", "approved">>, <<"section", section>>>>
        \o (IF Truthy(ind) THEN <<<<"industry", ind>>>> ELSE <<>>)

\* the test without its tech_code conjunct
NeedsFallback_AnyTech(docs, n, tech) == Len(docs) < n

\* the test of the fallback: len(found_docs) < n_results and tech_code
NeedsFallback(docs, n, tech) == Len(docs) < n /\ Truthy(tech)

\* meta or {}
MetaOrEmpty(meta) == IF meta = NoneMeta \/ meta = EmptyMeta THEN EmptyMeta ELSE meta

\* the loop over zip(found_docs, found_metas) from position i on, with the
\* examples and the seen set built so far
RECURSIVE DedupLoop(_, _, _, _, _)
DedupLoop(docs, metas, i, seen, acc) ==
    IF i > Min2(Len(docs), Len(metas)) THEN acc
    ELSE IF docs[i] \notin seen
         THEN DedupLoop(docs, metas, i + 1, seen \cup {docs[i]},
                        Append(acc, [text |-> docs[i], metadata |-> MetaOrEmpty(metas[i])]))
         ELSE DedupLoop(docs, metas, i + 1, seen, acc)

\* a deduplication through a dict keyed by text: first position, last metadata
Deduplicate_LastMeta(docs, metas) ==
    LET firsts == DedupLoop(docs, metas, 1, {}, <<>>)
        last(t) == CHOOSE i \in 1..Len(docs) :
                      docs[i] = t /\ \A j \in 1..Len(docs) : docs[j] = t => j <= i
    IN  [i \in 1..Len(firsts) |->
            [text |-> firsts[i].text, metadata |-> MetaOrEmpty(metas[last(firsts[i].text)])]]

\* the examples list built by the loop
Deduplicate(docs, metas) == DedupLoop(docs, metas, 1, {}, <<>>)

\* a return without the slice
Truncate_None(exs, n) == exs

\* the return value examples[:n_results]
Truncate(exs, n) == SliceTo(exs, n)

\* lines 63-82: the strict query and its hits
StrictQuery ==
    /\ pc = "retrieve"
    /\ \E hits \in StoreResponses(n_results) :
          /\ results' = hits
          /\ found_docs' = Docs(hits)
          /\ found_metas' = Metas(hits)
    /\ queries' = <<StoreQuery(StrictConditions(key, industry, tech_code))>>
    /\ pc' = "fallback"
    /\ UNCHANGED <<final_version, entry, industry, tech_code, project_description,
                   company_summary,
                   remaining, key, query, n_results, relaxed, examples, llm_call,
                   draft, feedback, sections, returned, calls, failed_call>>

\* the failure of an external call leaves the entry call by an exception, and
\* the locals of retrieve go with its frame
Raise(kind) ==
    /\ pc' = "raised"
    /\ failed_call' = kind
    /\ calls' = Count(key, kind)
    /\ results' = <<>>
    /\ relaxed' = <<>>
    /\ found_docs' = <<>>
    /\ found_metas' = <<>>
    /\ examples' = <<>>
    /\ UNCHANGED <<final_version, entry, industry, tech_code, project_description,
                   company_summary,
                   remaining, key, query, n_results, llm_call, draft, feedback,
                   sections, returned>>

\* the failure caught and answered by going on with no exemplars
StrictQueryFails_Degrade ==
    /\ pc = "retrieve"
    /\ queries' = <<StoreQuery(StrictConditions(key, industry, tech_code))>>
    /\ failed_call' = "store"
    /\ results' = <<>>
    /\ found_docs' = <<>>
    /\ found_metas' = <<>>
    /\ pc' = "fallback"
    /\ UNCHANGED <<entry, industry, tech_code, project_description, company_summary,
                   remaining, key, query, n_results, relaxed, examples, llm_call,
                   draft, feedback, final_version, sections, returned, calls>>

\* line 80 when collection.query raises
StrictQueryFails ==
    /\ pc = "retrieve"
    /\ queries' = <<StoreQuery(StrictConditions(key, industry, tech_code))>>
    /\ Raise("store")

\* lines 94-101 on the lists found: deduplication, then truncation
Retrieved(docs, metas, n) == Truncate(Deduplicate(docs, metas), n)

\* lines 85-101 when the fallback is taken: the relaxed query, its hits appended
\* to the strict ones, deduplication and truncation
RelaxedQuery ==
    /\ pc = "fallback"
    /\ NeedsFallback(found_docs, n_results, tech_code)
    /\ \E hits \in StoreResponses(n_results) :
          /\ relaxed' = hits
          /\ found_docs' = found_docs \o Docs(hits)
          /\ found_metas' = found_metas \o Metas(hits)
          /\ examples' = Retrieved(found_docs \o Docs(hits), found_metas \o Metas(hits),
                                  n_results)
          /\ returned' = IF entry = "retrieve"
                         THEN Retrieved(found_docs \o Docs(hits),
                                        found_metas \o Metas(hits), n_results)
                         ELSE returned
    /\ queries' = Append(queries, StoreQuery(RelaxedConditions(key, industry)))
    /\ pc' = "retrieved"
    /\ UNCHANGED <<final_version, entry, industry, tech_code, project_description,
                   company_summary,
                   remaining, key, query, n_results, results, llm_call,
                   draft, feedback, sections, calls, failed_call>>

\* line 90 when collection.query raises
RelaxedQueryFails ==
    /\ pc = "fallback"
    /\ NeedsFallback(found_docs, n_results, tech_code)
    /\ queries' = Append(queries, StoreQuery(RelaxedConditions(key, industry)))
    /\ Raise("store")

\* lines 85, 94-101 when the fallback is not taken
SkipFallback ==
    /\ pc = "fallback"
    /\ ~NeedsFallback(found_docs, n_results, tech_code)
    /\ examples' = Retrieved(found_docs, found_metas, n_results)
    /\ returned' = IF entry = "retrieve"
                   THEN Retrieved(found_docs, found_metas, n_results)
                   ELSE returned
    /\ pc' = "retrieved"
    /\ UNCHANGED <<final_version, entry, industry, tech_code, project_description,
                   company_summary,
                   remaining, key, query, n_results, queries, results, relaxed,
                   found_docs, found_metas, llm_call, draft, feedback, sections,
                   calls, failed_call>>

---------------------------------------------------------------------------
(* LLMClient._call_llm *)

\* content = response.choices[0].message.content or ""; return content.strip()
Completion(content) == Strip(IF content = NoContent THEN <<>> ELSE content)

---------------------------------------------------------------------------
(* SimpleGeneratorAgent *)

\* dict.get(k, default)
MetaGet(meta, k, default) ==
    IF \E p \in meta : p[1] = k THEN (CHOOSE p \in meta : p[1] = k)[2] ELSE default

\* the query f-string of generate_section, one <<label, value>> pair per line
SectionQuery(ind, tech, desc, summary) ==
    << <<"Industry", Str(ind)>>, <<"Tech", Str(tech)>>, <<"Desc", Str(desc)>> >>

\* f"Project: {title}\n\n{ex.text}"
ExampleText(ex) ==
    <<"Project: ", MetaGet(ex.metadata, "project_title", "Example"), "\n\n", ex.text>>

\* the llm.generate_section call of generate_section
DraftRequest(section, ind, tech, desc, summary, exs) ==
    [kind |-> "draft",
     args |-> [section_label |-> SectionLabel(section),
               project_description |-> OrElse(desc, ""),
               industry |-> ind,
               tech_code |-> OrElse(tech, ""),
               examples |-> [i \in 1..Len(exs) |-> ExampleText(exs[i])],
               min_words |-> WordLimits(section)[1],
               max_words |-> WordLimits(section)[2],
               company_summary |-> summary]]

\* the llm.refine_draft call of refine_section
RefineRequest(section, d, fb) ==
    [kind |-> "refine",
     args |-> [section_label |-> SectionLabel(section), draft_text |-> d, feedback |-> fb]]

\* ReviewerAgent.review: the llm.review_draft call
ReviewRequest(section, d) ==
    [kind |-> "review", args |-> [section_label |-> section, draft_text |-> d]]

\* lines 129-140: generate_section up to its retrieve call
GenerateSectionBegin ==
    /\ pc = "generate_section"
    /\ query' = SectionQuery(industry, tech_code, project_description, company_summary)
    /\ n_results' = N_RESULTS
    /\ queries' = <<>>
    /\ pc' = "retrieve"
    /\ UNCHANGED <<final_version, entry, industry, tech_code, project_description,
                   company_summary,
                   remaining, key, results, relaxed, found_docs, found_metas, examples,
                   llm_call, draft, feedback, sections, returned, calls, failed_call>>

\* lines 142-156: the example blocks and the drafting completion; the locals of
\* retrieve and the examples go with their frames when generate_section returns
DraftCall ==
    /\ pc = "retrieved"
    /\ entry \in {"report", "section"}
    /\ llm_call' = DraftRequest(key, industry, tech_code, project_description,
                                company_summary, examples)
    /\ \E content \in DraftContents :
          /\ draft' = Completion(content)
          /\ returned' = IF entry = "section" THEN Completion(content) ELSE returned
    /\ calls' = Count(key, "draft")
    /\ pc' = IF entry = "section" THEN "returned" ELSE "drafted"
    /\ results' = <<>>
    /\ relaxed' = <<>>
    /\ found_docs' = <<>>
    /\ found_metas' = <<>>
    /\ examples' = <<>>
    /\ UNCHANGED <<entry, industry, tech_code, project_description, company_summary,
                   remaining, key, query, n_results, queries, feedback,
                   final_version, sections, failed_call>>

\* line 147 when the completion raises
DraftCallFails ==
    /\ pc = "retrieved"
    /\ entry \in {"report", "section"}
    /\ queries' = queries
    /\ Raise("draft")

---------------------------------------------------------------------------
(* ReportGenerator.generate_report *)

\* the test as feedback == "APPROVED"
IsApproved_Exact(fb) == fb = APPROVED

\* "APPROVED" in feedback
IsApproved(fb) == Contains(fb, APPROVED)

\* the rejected draft stored in place of final_version
StoreRefined_Draft(secs, k, d, final) == (k :> d) @@ secs

\* sections[key] = final_version and sections[key] = draft
StoreRefined(secs, k, d, final) == (k :> final) @@ secs
StoreAccepted(secs, k, d) == (k :> d) @@ secs

\* line 177: the for loop takes the next key; the locals of the previous
\* iteration are never read again
BeginSection ==
    /\ pc = "loop"
    /\ remaining # <<>>
    /\ key' = Head(remaining)
    /\ remaining' = Tail(remaining)
    /\ draft' = <<>>
    /\ feedback' = <<>>
    /\ final_version' = <<>>
    /\ llm_call' = NoCall
    /\ pc' = "generate_section"
    /\ UNCHANGED <<entry, industry, tech_code, project_description, company_summary,
                   query, n_results, queries, results, relaxed, found_docs, found_metas,
                   examples, sections, returned, calls, failed_call>>

\* line 189: the review of the draft
ReviewCall ==
    /\ pc = "drafted"
    /\ llm_call' = ReviewRequest(key, draft)
    /\ \E content \in ReviewContents : feedback' = Completion(content)
    /\ calls' = Count(key, "review")
    /\ pc' = "reviewed"
    /\ UNCHANGED <<final_version, entry, industry, tech_code, project_description,
                   company_summary,
                   remaining, key, query, n_results, queries, results, relaxed,
                   found_docs, found_metas, examples, draft, sections, returned,
                   failed_call>>

\* line 189 when the completion raises
ReviewCallFails ==
    /\ pc = "drafted"
    /\ queries' = queries
    /\ Raise("review")

\* the refinement as one round of an approval loop: the refined text becomes
\* the draft and goes back to the reviewer
RefineCall_Rereview ==
    /\ \/ pc = "reviewed" /\ ~IsApproved(feedback)
       \/ pc = "refine_section"
    /\ llm_call' = RefineRequest(key, draft, feedback)
    /\ \E content \in RefineContents :
          /\ final_version' = Completion(content)
          /\ IF entry = "report"
             THEN /\ draft' = Completion(content)
                  /\ pc' = "drafted"
                  /\ returned' = returned
             ELSE /\ draft' = draft
                  /\ pc' = "returned"
                  /\ returned' = Completion(content)
    /\ calls' = Count(key, "refine")
    /\ UNCHANGED <<entry, industry, tech_code, project_description, company_summary,
                   remaining, key, query, n_results, queries, results, relaxed,
                   found_docs, found_metas, examples, feedback, sections, failed_call>>

\* lines 192-195, and a direct refine_section call: the refining completion
RefineCall ==
    /\ \/ pc = "reviewed" /\ ~IsApproved(feedback)
       \/ pc = "refine_section"
    /\ llm_call' = RefineRequest(key, draft, feedback)
    /\ \E content \in RefineContents :
          /\ final_version' = Completion(content)
          /\ IF entry = "report"
             THEN /\ sections' = StoreRefined(sections, key, draft, Completion(content))
                  /\ pc' = "loop"
                  /\ returned' = returned
             ELSE /\ sections' = sections
                  /\ pc' = "returned"
                  /\ returned' = Completion(content)
    /\ calls' = Count(key, "refine")
    /\ UNCHANGED <<entry, industry, tech_code, project_description, company_summary,
                   remaining, key, query, n_results, queries, results, relaxed,
                   found_docs, found_metas, examples, draft, feedback, failed_call>>

\* line 194 (line 160) when the completion raises
RefineCallFails ==
    /\ \/ pc = "reviewed" /\ ~IsApproved(feedback)
       \/ pc = "refine_section"
    /\ queries' = queries
    /\ Raise("refine")

\* lines 196-198: the draft is accepted as it is
Accept ==
    /\ pc = "reviewed"
    /\ IsApproved(feedback)
    /\ sections' = StoreAccepted(sections, key, draft)
    /\ pc' = "loop"
    /\ UNCHANGED <<final_version, entry, industry, tech_code, project_description,
                   company_summary,
                   remaining, key, query, n_results, queries, results, relaxed,
                   found_docs, found_metas, examples, llm_call, draft, feedback,
                   returned, calls, failed_call>>

\* the return statement one level deeper, inside the for loop
ReturnReport_InLoop ==
    /\ pc = "loop"
    /\ key # None
    /\ returned' = sections
    /\ pc' = "returned"
    /\ UNCHANGED <<entry, industry, tech_code, project_description, company_summary,
                   remaining, key, query, n_results, queries, results, relaxed,
                   found_docs, found_metas, examples, llm_call, draft, feedback,
                   final_version, sections, calls, failed_call>>

\* line 200: return sections
ReturnReport ==
    /\ pc = "loop"
    /\ remaining = <<>>
    /\ returned' = sections
    /\ pc' = "returned"
    /\ UNCHANGED <<final_version, entry, industry, tech_code, project_description,
                   company_summary,
                   remaining, key, query, n_results, queries, results, relaxed,
                   found_docs, found_metas, examples, llm_call, draft, feedback,
                   sections, calls, failed_call>>

---------------------------------------------------------------------------
(* The calls *)

Industries == {"pharmacy"}
TechCodes == {None, "", "01.01"}
Descriptions == {None, "Developed a new extraction process"}
Summaries == {None, "Compounding pharmacy"}

\* the query of a direct retrieve call
DirectQuery == << <<"Query", "extraction process">> >>

\* nothing has been called yet
Idle ==
    /\ queries = <<>>
    /\ results = <<>>
    /\ relaxed = <<>>
    /\ found_docs = <<>>
    /\ found_metas = <<>>
    /\ examples = <<>>
    /\ llm_call = NoCall
    /\ final_version = <<>>
    /\ sections = <<>>
    /\ returned = NotReturned
    /\ calls = NoCalls
    /\ failed_call = "none"

\* generate_report(industry, tech_code, project_description, company_summary);
\* the request layer passes a non-empty industry
InitReport ==
    /\ entry = "report"
    /\ pc = "loop"
    /\ industry \in Industries
    /\ tech_code \in TechCodes
    /\ project_description \in Descriptions
    /\ company_summary \in Summaries
    /\ key = None
    /\ remaining = SECTION_KEYS
    /\ query = <<>>
    /\ n_results = N_RESULTS
    /\ draft = <<>>
    /\ feedback = <<>>
    /\ Idle

\* generate_section(section, ...) with any section key
InitSection ==
    /\ entry = "section"
    /\ pc = "generate_section"
    /\ industry \in Industries
    /\ tech_code \in TechCodes
    /\ project_description \in Descriptions
    /\ company_summary \in Summaries
    /\ key \in AllKeys
    /\ remaining = <<>>
    /\ query = <<>>
    /\ n_results = N_RESULTS
    /\ draft = <<>>
    /\ feedback = <<>>
    /\ Idle

\* refine_section(section, draft, feedback) with any section key
InitRefine ==
    /\ entry = "refine"
    /\ pc = "refine_section"
    /\ industry = None
    /\ tech_code = None
    /\ project_description = None
    /\ company_summary = None
    /\ key \in AllKeys
    /\ remaining = <<>>
    /\ query = <<>>
    /\ n_results = N_RESULTS
    /\ Idle
    /\ draft \in {Completion(c) : c \in DraftContents}
    /\ feedback \in {Completion(c) : c \in ReviewContents}

\* retrieve(query, section, tech_code, industry, n_results) with n_results >= 0
InitRetrieve ==
    /\ entry = "retrieve"
    /\ pc = "retrieve"
    /\ industry \in Industries \cup {None, ""}
    /\ tech_code \in TechCodes
    /\ project_description = None
    /\ company_summary = None
    /\ key = "uncertainty"
    /\ remaining = <<>>
    /\ draft = <<>>
    /\ feedback = <<>>
    /\ Idle
    /\ query = DirectQuery
    /\ n_results \in 0..MaxN

Init == InitReport \/ InitSection \/ InitRefine \/ InitRetrieve

Next ==
    \/ BeginSection
    \/ GenerateSectionBegin
    \/ StrictQuery
    \/ StrictQueryFails
    \/ RelaxedQuery
    \/ RelaxedQueryFails
    \/ SkipFallback
    \/ DraftCall
    \/ DraftCallFails
    \/ ReviewCall
    \/ ReviewCallFails
    \/ RefineCall
    \/ RefineCallFails
    \/ Accept
    \/ ReturnReport

Spec == Init /\ [][Next]_vars

---------------------------------------------------------------------------
(* Properties of generate_report *)

ConfiguredKeys == {"uncertainty", "systematic_investigation", "technological_advancement"}

\* generate_report has just stored the final text of section key
Stored == entry = "report" /\ key \in ConfiguredKeys /\ pc \in {"loop", "returned"}

\* C1: when the feedback of a section contains "APPROVED" anywhere, the text
\* stored for the section is its draft, unchanged, and no refining completion
\* was asked for the section
ApprovedKeepsDraft ==
    (Stored /\ Contains(feedback, APPROVED)) =>
        /\ key \in DOMAIN sections
        /\ sections[key] = draft
        /\ calls[key]["refine"] = 0
        /\ llm_call.kind = "review"

\* an approval with text around the literal was stored
ApprovedKeepsDraftWitness ==
    /\ Stored
    /\ Contains(feedback, APPROVED)
    /\ feedback # APPROVED
    /\ draft # <<>>
    /\ sections[key] = draft
    /\ calls[key]["refine"] = 0

\* C2: when the feedback of a section does not contain "APPROVED", exactly one
\* refining completion was asked for the section, with the section's draft and
\* the feedback as they are, and the text stored is what it returned
RejectedIsRefinedOnce ==
    (Stored /\ ~Contains(feedback, APPROVED)) =>
        /\ calls[key]["refine"] = 1
        /\ llm_call.kind = "refine"
        /\ llm_call.args.draft_text = draft
        /\ llm_call.args.feedback = feedback
        /\ key \in DOMAIN sections
        /\ sections[key] = final_version

\* an empty feedback led to a refinement whose text, not the draft, was stored
RejectedIsRefinedOnceWitness ==
    /\ Stored
    /\ feedback = <<>>
    /\ calls[key]["refine"] = 1
    /\ final_version # draft
    /\ sections[key] = final_version

\* C6: the mapping generate_report returns has exactly the three section keys,
\* one text each, whatever facts are present and whatever the reviews said
ReportHasThreeKeys ==
    (entry = "report" /\ pc = "returned") =>
        /\ DOMAIN returned = {"uncertainty", "systematic_investigation",
                              "technological_advancement"}
        /\ returned = sections
        /\ remaining = <<>>

\* a report returned without any optional fact, one section accepted and one refined
ReportHasThreeKeysWitness ==
    /\ entry = "report"
    /\ pc = "returned"
    /\ tech_code = None
    /\ project_description = None
    /\ company_summary = None
    /\ calls["uncertainty"]["refine"] = 1
    /\ calls["systematic_investigation"]["refine"] = 0
    /\ Cardinality(DOMAIN returned) = 3

\* C7: once an external call has raised, generate_report is left by the
\* exception: nothing is returned, and no further store query or completion is
\* issued (no retry, no later call)
FailurePropagates ==
    /\ [](failed_call # "none" => pc = "raised" /\ returned = NotReturned)
    /\ [][failed_call # "none" =>
            /\ pc' = pc
            /\ calls' = calls
            /\ queries' = queries
            /\ llm_call' = llm_call
            /\ sections' = sections
            /\ returned' = returned]_vars

\* the refining completion of the third section raised after two sections were
\* finished, and no mapping was returned
FailurePropagatesWitness ==
    /\ entry = "report"
    /\ pc = "raised"
    /\ failed_call = "refine"
    /\ key = "technological_advancement"
    /\ DOMAIN sections = {"uncertainty", "systematic_investigation"}
    /\ returned = NotReturned

\* C11: in generate_report every section is drafted, then reviewed, then
\* refined at most once: each completion is asked at most once per section, a
\* review never precedes the draft nor a refinement the review, the review is
\* of the draft, nothing is reviewed after a refinement, and a returned report
\* took one draft and one review per section and at most three refinements
DraftReviewRefineOnce ==
    /\ [](entry = "report" =>
            /\ \A k \in ConfiguredKeys :
                  /\ calls[k]["draft"] <= 1
                  /\ calls[k]["review"] <= calls[k]["draft"]
                  /\ calls[k]["refine"] <= calls[k]["review"]
                  /\ k \in DOMAIN sections =>
                        calls[k]["draft"] = 1 /\ calls[k]["review"] = 1
            /\ llm_call.kind = "review" =>
                  /\ llm_call.args.draft_text = draft
                  /\ pc # "raised" => calls[key]["refine"] = 0
            /\ llm_call.kind = "refine" => llm_call.args.draft_text = draft
            /\ pc = "returned" =>
                  /\ \A k \in ConfiguredKeys :
                        calls[k]["draft"] = 1 /\ calls[k]["review"] = 1
                  /\ calls["uncertainty"]["refine"]
                       + calls["systematic_investigation"]["refine"]
                       + calls["technological_advancement"]["refine"] <= 3)
    /\ [][entry = "report" =>
            \A k \in ConfiguredKeys :
                /\ calls[k]["refine"] >= 1 => calls'[k] = calls[k]
                /\ calls'[k]["review"] > calls[k]["review"] =>
                      /\ calls[k]["draft"] = 1
                      /\ llm_call.kind = "draft"
                      /\ pc' # "raised" =>
                            /\ llm_call'.kind = "review"
                            /\ llm_call'.args.draft_text = draft]_vars

\* a report returned after all three sections were rejected and refined: three
\* drafts, three reviews, three refinements
DraftReviewRefineOnceWitness ==
    /\ entry = "report"
    /\ pc = "returned"
    /\ \A k \in ConfiguredKeys :
          calls[k]["draft"] = 1 /\ calls[k]["review"] = 1 /\ calls[k]["refine"] = 1

\* the where conditions of a store query name this section
FiltersSection(q, section) ==
    \E i \in 1..Len(q.where.conds) : q.where.conds[i] = <<"section", section>>

\* the section keys processed before key k in the order uncertainty,
\* systematic_investigation, technological_advancement
EarlierKeys(k) ==
    CASE k = "uncertainty" -> {}
      [] k = "systematic_investigation" -> {"uncertainty"}
      [] k = "technological_advancement" -> {"uncertainty", "systematic_investigation"}
      [] OTHER -> {}

\* C13: generate_report takes the sections in the order uncertainty,
\* systematic_investigation, technological_advancement: when a section is being
\* processed, or a store query or completion was issued for it, the final text
\* of every earlier section is stored, and no later section has a text yet
SectionsInOrder ==
    entry = "report" =>
        /\ \A k \in ConfiguredKeys :
              (k = key \/ calls[k] # [c \in CallKinds |-> 0]) =>
                  EarlierKeys(k) \subseteq DOMAIN sections
        /\ \A k \in DOMAIN sections : k \in ConfiguredKeys /\ EarlierKeys(k) \subseteq DOMAIN sections
        /\ key \in ConfiguredKeys => DOMAIN sections \subseteq EarlierKeys(key) \cup {key}
        /\ (queries # <<>> /\ pc # "generate_section") =>
              \A i \in 1..Len(queries) : FiltersSection(queries[i], key)
        /\ calls[UnknownKey] = [c \in CallKinds |-> 0]

\* the retrieval for the third section, the first two sections stored
SectionsInOrderWitness ==
    /\ entry = "report"
    /\ key = "technological_advancement"
    /\ pc = "retrieved"
    /\ Len(queries) = 2
    /\ DOMAIN sections = {"uncertainty", "systematic_investigation"}

---------------------------------------------------------------------------
(* Properties of SimpleGeneratorAgent *)

\* C8: with a section key outside the configured ones, generate_section and
\* refine_section end by an exception only when an external call raised;
\* generate_section asks for the draft under the key as label with the word
\* target (300, 350), after a retrieval filtered on the key, and returns the
\* completion's text
UnknownKeyFallsBack ==
    (entry \in {"section", "refine"} /\ key \notin ConfiguredKeys) =>
        /\ pc = "raised" => failed_call \in {"store", "draft", "refine"}
        /\ pc = "retrieved" =>
              /\ n_results = 3
              /\ \A i \in 1..Len(queries) : FiltersSection(queries[i], key)
        /\ (entry = "section" /\ pc = "returned") =>
              /\ llm_call.kind = "draft"
              /\ llm_call.args.section_label = key
              /\ llm_call.args.min_words = 300
              /\ llm_call.args.max_words = 350
              /\ Len(queries) >= 1
              /\ \A i \in 1..Len(queries) : FiltersSection(queries[i], key)
              /\ returned = draft
              /\ returned \in {Completion(c) : c \in DraftContents}
        /\ (entry = "refine" /\ pc = "returned") =>
              /\ llm_call.kind = "refine"
              /\ llm_call.args.section_label = key
              /\ llm_call.args.draft_text = draft
              /\ llm_call.args.feedback = feedback
              /\ returned = final_version

\* generate_section returned a text for the unknown key after both queries
UnknownKeyFallsBackWitness ==
    /\ entry = "section"
    /\ key = UnknownKey
    /\ pc = "returned"
    /\ Len(queries) = 2
    /\ returned # <<>>

\* C9: the query generate_section hands to retrieve has one line for each of
\* industry, tech code, company summary and description, in this order, an
\* absent fact shown as "N/A"
QueryHasFourFactLines ==
    (entry \in {"report", "section"} /\ pc = "retrieve") =>
        LET facts == <<industry, tech_code, company_summary, project_description>>
        IN  /\ Len(query) = 4
            /\ \A i \in 1..4 :
                  query[i][2] = (IF facts[i] \in {None, ""} THEN "N/A" ELSE facts[i])

---------------------------------------------------------------------------
(* Properties of retrieve *)

\* the texts of a list of hits or examples
TextsOf(seq) == {seq[i].text : i \in 1..Len(seq)}

\* the hits of the strict query followed by those of the relaxed one
Combined == results \o relaxed

\* position of the first hit with text t in the combined list
FirstAt(t) == CHOOSE i \in 1..Len(Combined) :
                 Combined[i].text = t /\ \A j \in 1..Len(Combined) : Combined[j].text = t => i <= j

\* the conditions of a store query on one field
CondsOn(q, field) ==
    {q.where.conds[i] : i \in {j \in 1..Len(q.where.conds) : q.where.conds[j][1] = field}}

\* C12: every store query of retrieve, strict or relaxed, filters on
\* status = "approved" and on the requested section; it filters on the industry
\* exactly when an industry is given, and on the tech_code only in the strict
\* query and only when a tech_code is given (queries holds the queries of the
\* retrieve call for section key once generate_section has begun)
FiltersOfEveryQuery ==
    pc # "generate_section" => \A i \in 1..Len(queries) :
        /\ queries[i].where.op = "$and"
        /\ CondsOn(queries[i], "status") = {<<"status", "approved">>}
        /\ CondsOn(queries[i], "section") = {<<"section", key>>}
        /\ CondsOn(queries[i], "industry") =
              (IF industry \in {None, ""} THEN {} ELSE {<<"industry", industry>>})
        /\ CondsOn(queries[i], "tech_code") =
              (IF i = 1 /\ tech_code \notin {None, ""}
               THEN {<<"tech_code", tech_code>>} ELSE {})
        /\ \A j \in 1..Len(queries[i].where.conds) :
              queries[i].where.conds[j][1] \in {"status", "section", "industry", "tech_code"}

\* a strict and a relaxed query of a call with a tech_code and no industry
FiltersOfEveryQueryWitness ==
    /\ pc = "retrieved"
    /\ industry \in {None, ""}
    /\ tech_code = "01.01"
    /\ Len(queries) = 2
    /\ Len(queries[1].where.conds) = 3
    /\ Len(queries[2].where.conds) = 2

\* C3: retrieve returns at most n_results passages, no two with the same text,
\* for every n_results >= 0 and all strict and relaxed hit lists
AtMostNDistinct ==
    pc = "retrieved" =>
        /\ Len(examples) <= n_results
        /\ \A i, j \in 1..Len(examples) : i # j => examples[i].text # examples[j].text
        /\ entry = "retrieve" => returned = examples

\* a direct call whose relaxed hits repeat a strict hit and whose hit lists
\* together are longer than n_results
AtMostNDistinctWitness ==
    /\ pc = "retrieved"
    /\ entry = "retrieve"
    /\ n_results = 2
    /\ Len(relaxed) > 0
    /\ TextsOf(results) \cap TextsOf(relaxed) # {}
    /\ Len(Combined) > n_results
    /\ Len(returned) = n_results

\* C4: the relaxed query is issued only when the strict query gave fewer than
\* n_results hits and tech_code is non-empty; otherwise the strict query is the
\* only store query of the retrieve call
RelaxedOnlyWhenStarved ==
    pc = "retrieved" =>
        /\ Len(queries) \in {1, 2}
        /\ Len(queries) = 2 => Len(results) < n_results /\ tech_code \notin {None, ""}
        /\ (Len(results) >= n_results \/ tech_code \in {None, ""}) =>
              /\ Len(queries) = 1
              /\ relaxed = <<>>
              /\ found_docs = Docs(results)

\* a starved strict query without a tech_code, and so without a relaxed query
RelaxedOnlyWhenStarvedWitness ==
    /\ pc = "retrieved"
    /\ tech_code \in {None, ""}
    /\ Len(results) < n_results
    /\ Len(queries) = 1

\* C5: when the strict query gave fewer than n_results hits and tech_code is
\* non-empty, one relaxed query follows, its filter the strict filter less the
\* tech_code condition, and its hits are appended to the strict hits before
\* deduplication and truncation; the drafting request carries one block per
\* passage retrieve returned
RelaxedQueryAppends ==
    /\ [](pc = "retrieved" /\ Len(results) < n_results /\ tech_code \notin {None, ""} =>
            /\ Len(queries) = 2
            /\ \E i \in 1..Len(queries[1].where.conds) :
                  queries[1].where.conds[i] = <<"tech_code", tech_code>>
            /\ queries[2].where.op = queries[1].where.op
            /\ queries[2].where.conds =
                  SelectSeq(queries[1].where.conds, LAMBDA c : c[1] # "tech_code")
            /\ queries[2].n_results = queries[1].n_results
            /\ queries[2].query_embeddings = queries[1].query_embeddings
            /\ found_docs = Docs(results) \o Docs(relaxed)
            /\ found_metas = Metas(results) \o Metas(relaxed)
            /\ Len(examples) = Min2(n_results, Cardinality(TextsOf(Combined)))
            /\ \A i \in 1..Len(examples) : examples[i].text \in TextsOf(Combined))
    /\ [][pc = "retrieved" /\ llm_call'.kind = "draft" =>
            /\ Len(llm_call'.args.examples) = Len(examples)
            /\ Len(llm_call'.args.examples) <= 3
            /\ \A i \in 1..Len(examples) : llm_call'.args.examples[i][4] = examples[i].text]_vars

\* the scenario of the spec: one strict hit for n_results = 3, a relaxed query
\* with hits, and a drafting request built from the combined list
RelaxedQueryAppendsWitness ==
    /\ entry = "report"
    /\ industry = "pharmacy"
    /\ tech_code = "01.01"
    /\ project_description = "Developed a new extraction process"
    /\ pc = "retrieved"
    /\ n_results = 3
    /\ Len(results) = 1
    /\ Len(relaxed) = 3
    /\ Len(queries) = 2
    /\ Len(examples) = 3

\* C10: the returned list keeps the first-seen order of the strict hits followed
\* by the relaxed hits: it holds the first n_results distinct texts in the order
\* of their first occurrence, so strict texts come before relaxed-only texts and
\* in the order the store gave them, each with the metadata of its first
\* occurrence
FirstSeenOrder ==
    pc = "retrieved" =>
        /\ \A i \in 1..Len(examples) :
              /\ examples[i].text \in TextsOf(Combined)
              /\ examples[i].metadata =
                    (IF Combined[FirstAt(examples[i].text)].meta = NoneMeta
                     THEN {} ELSE Combined[FirstAt(examples[i].text)].meta)
              /\ \A t \in TextsOf(Combined) :
                    FirstAt(t) < FirstAt(examples[i].text) =>
                        \E j \in 1..(i - 1) : examples[j].text = t
        /\ \A i, j \in 1..Len(examples) :
              i < j => FirstAt(examples[i].text) < FirstAt(examples[j].text)
        /\ \A i, j \in 1..Len(examples) :
              (examples[i].text \in TextsOf(results) /\ examples[j].text \notin TextsOf(results))
                  => i < j
        /\ Len(examples) = Min2(Max2(n_results, 0), Cardinality(TextsOf(Combined)))

\* a text found by both queries under different metadata, returned with the
\* metadata of the strict hit and ahead of a text only the relaxed query found
FirstSeenOrderWitness ==
    /\ pc = "retrieved"
    /\ Len(examples) >= 2
    /\ \E i \in 1..Len(results) : \E j \in 1..Len(relaxed) :
          /\ results[i].text = relaxed[j].text
          /\ results[i].meta # relaxed[j].meta
          /\ examples[1].text = results[i].text
          /\ examples[1].metadata = results[i].meta
    /\ examples[2].text \notin TextsOf(results)

====
